---------------------------- MODULE Spec2Model ----------------------------
(***************************************************************************)
(* Model of graphina's error taxonomy, src/src/core/error.rs.             *)
(*                                                                         *)
(* A GraphinaError is a record with the two public fields kind and        *)
(* message.  The model follows one error value through its life: it is    *)
(* built by one of the fifteen constructors, may be cloned, rendered by   *)
(* Display or by the derived Debug, have a public field overwritten by    *)
(* its holder, and is finally dropped.                                     *)
(*                                                                         *)
(* Text is a TLA+ string; a message is a sequence of one-character        *)
(* strings, so that the escaping done by the rendering can be followed    *)
(* character by character.  Rendering is with the default formatter       *)
(* ("{}" / to_string(), as in the module's test) into a String.           *)
(***************************************************************************)
EXTENDS Integers, Sequences, FiniteSets, TLC

VARIABLES
    err,      \* the error value held, or None
    made,     \* the constructor call err still is the result of, or None
    copy,     \* a clone of err, or None
    out       \* the last rendering: entry point, value rendered, result, text

vars == <<err, made, copy, out>>

\* Longest message the model enumerates.
MaxLen == 2

\* Largest iteration count the model enumerates (three digits are reached).
MaxIter == 100

\* The absence of a value (an empty binding or an Option::None).
None == [none |-> TRUE]

\* The characters messages are made of: a printable letter, the double
\* quote, the backslash, a line feed and a form feed.
Chars == {"a", "\"", "\\", "\n", "\f"}

Messages == UNION {[1..n -> Chars] : n \in 0..MaxLen}

\* The iteration counts the model enumerates: one, two and more digits.
NumIterations == {0, 9, 10, MaxIter}

\* The scalar value of a character (char as u32).
CodePoint(c) ==
    CASE c = "a"  -> 97
      [] c = "\"" -> 34
      [] c = "\\" -> 92
      [] c = "\n" -> 10
      [] c = "\f" -> 12

---------------------------------------------------------------------------
(* The types *)

\* The names of the variants of enum GraphinaErrorKind, in source order.
KindNames ==
    {"PointlessConcept", "AlgorithmError", "Unfeasible", "NoPath", "NoCycle",
     "NodeNotFound", "EdgeNotFound", "HasACycle", "Unbounded",
     "NotImplemented", "AmbiguousSolution", "ExceededMaxIterations",
     "PowerIterationFailedConvergence", "EmptyGraph", "ParseError", "Other"}

\* The variants without a payload.
UnitKindNames == KindNames \ {"PowerIterationFailedConvergence"}

\* enum GraphinaErrorKind: fifteen unit variants and one struct variant.
GraphinaErrorKind ==
    {[name |-> k] : k \in UnitKindNames}
    \cup {[name |-> "PowerIterationFailedConvergence", num_iterations |-> n] :
            n \in NumIterations}

\* struct GraphinaError { pub kind, pub message }.
GraphinaError == [kind : GraphinaErrorKind, message : Messages]

---------------------------------------------------------------------------
(* The constructors *)

\* Into with the text cut to its first character.
Into_truncated(message) ==
    [i \in 1..(IF Len(message) > 1 THEN 1 ELSE Len(message)) |-> message[i]]

\* message.into(): the caller's text copied into an owned String.
Into(message) == [i \in 1..Len(message) |-> message[i]]

pointless(message) ==
    [kind |-> [name |-> "PointlessConcept"], message |-> Into(message)]

algorithm_error(message) ==
    [kind |-> [name |-> "AlgorithmError"], message |-> Into(message)]

unfeasible(message) ==
    [kind |-> [name |-> "Unfeasible"], message |-> Into(message)]

\* no_path with the kind of its neighbour no_cycle.
no_path_swapped(message) ==
    [kind |-> [name |-> "NoCycle"], message |-> Into(message)]

no_path(message) ==
    [kind |-> [name |-> "NoPath"], message |-> Into(message)]

no_cycle(message) ==
    [kind |-> [name |-> "NoCycle"], message |-> Into(message)]

node_not_found(message) ==
    [kind |-> [name |-> "NodeNotFound"], message |-> Into(message)]

edge_not_found(message) ==
    [kind |-> [name |-> "EdgeNotFound"], message |-> Into(message)]

has_a_cycle(message) ==
    [kind |-> [name |-> "HasACycle"], message |-> Into(message)]

unbounded(message) ==
    [kind |-> [name |-> "Unbounded"], message |-> Into(message)]

ambiguous_solution(message) ==
    [kind |-> [name |-> "AmbiguousSolution"], message |-> Into(message)]

exceeded_max_iteration(message) ==
    [kind |-> [name |-> "ExceededMaxIterations"], message |-> Into(message)]

power_iteration_failed_converge(num_iterations, message) ==
    [kind |-> [name |-> "PowerIterationFailedConvergence",
               num_iterations |-> num_iterations],
     message |-> Into(message)]

empty_graph(message) ==
    [kind |-> [name |-> "EmptyGraph"], message |-> Into(message)]

parse_error(message) ==
    [kind |-> [name |-> "ParseError"], message |-> Into(message)]

\* other refusing an empty message: no error value is returned for it.
other_validating(message) ==
    IF message = <<>>
    THEN None
    ELSE [kind |-> [name |-> "Other"], message |-> Into(message)]

other(message) ==
    [kind |-> [name |-> "Other"], message |-> Into(message)]

\* The names of the functions of impl GraphinaError.
Constructors ==
    {"pointless", "algorithm_error", "unfeasible", "no_path", "no_cycle",
     "node_not_found", "edge_not_found", "has_a_cycle", "unbounded",
     "ambiguous_solution", "exceeded_max_iteration",
     "power_iteration_failed_converge", "empty_graph", "parse_error",
     "other"}

\* The constructors that take a message only.
MessageOnlyConstructors == Constructors \ {"power_iteration_failed_converge"}

\* The dispatch of a call by name: what GraphinaError::<ctor>(...) returns.
Construct(ctor, num_iterations, message) ==
    CASE ctor = "pointless" -> pointless(message)
      [] ctor = "algorithm_error" -> algorithm_error(message)
      [] ctor = "unfeasible" -> unfeasible(message)
      [] ctor = "no_path" -> no_path(message)
      [] ctor = "no_cycle" -> no_cycle(message)
      [] ctor = "node_not_found" -> node_not_found(message)
      [] ctor = "edge_not_found" -> edge_not_found(message)
      [] ctor = "has_a_cycle" -> has_a_cycle(message)
      [] ctor = "unbounded" -> unbounded(message)
      [] ctor = "ambiguous_solution" -> ambiguous_solution(message)
      [] ctor = "exceeded_max_iteration" -> exceeded_max_iteration(message)
      [] ctor = "power_iteration_failed_converge" ->
             power_iteration_failed_converge(num_iterations, message)
      [] ctor = "empty_graph" -> empty_graph(message)
      [] ctor = "parse_error" -> parse_error(message)
      [] ctor = "other" -> other(message)

---------------------------------------------------------------------------
(* Rendering: what core::fmt does for the calls of Display::fmt and of the *)
(* derived Debug implementations, under the default formatter.             *)

Digit(d) == <<"0", "1", "2", "3", "4", "5", "6", "7", "8", "9">>[d + 1]

\* fmt_usize with the digits in the order they are computed, least
\* significant first.
RECURSIVE fmt_usize_reversed(_)
fmt_usize_reversed(n) ==
    IF n < 10 THEN Digit(n)
    ELSE Digit(n % 10) \o fmt_usize_reversed(n \div 10)

\* Debug/Display of a usize: its decimal digits, most significant first.
RECURSIVE fmt_usize(_)
fmt_usize(n) ==
    IF n < 10 THEN Digit(n) ELSE fmt_usize(n \div 10) \o Digit(n % 10)

HexDigit(d) ==
    <<"0", "1", "2", "3", "4", "5", "6", "7", "8", "9",
      "a", "b", "c", "d", "e", "f">>[d + 1]

\* The lower-case hexadecimal digits of a scalar value, without leading zeros.
RECURSIVE fmt_hex(_)
fmt_hex(n) ==
    IF n < 16 THEN HexDigit(n) ELSE fmt_hex(n \div 16) \o HexDigit(n % 16)

\* Whether core::unicode::printable::is_printable accepts the character
\* (for the ASCII range: neither a C0 control character nor DEL).
is_printable(c) == CodePoint(c) >= 32 /\ CodePoint(c) < 127

\* escape_debug_ext without the arm for the backslash.
escape_debug_ext_no_backslash(c) ==
    CASE c = "\t" -> "\\t"
      [] c = "\r" -> "\\r"
      [] c = "\n" -> "\\n"
      [] c = "\"" -> "\\\""
      [] OTHER -> IF is_printable(c)
                  THEN c
                  ELSE "\\u{" \o fmt_hex(CodePoint(c)) \o "}"

\* char::escape_debug_ext as <str as Debug>::fmt calls it: the double quote
\* is escaped and the single quote is not.  The arm for NUL (written \0) is
\* left out: a TLA+ string cannot hold that character.
escape_debug_ext(c) ==
    CASE c = "\t" -> "\\t"
      [] c = "\r" -> "\\r"
      [] c = "\n" -> "\\n"
      [] c = "\\" -> "\\\\"
      [] c = "\"" -> "\\\""
      [] OTHER -> IF is_printable(c)
                  THEN c
                  ELSE "\\u{" \o fmt_hex(CodePoint(c)) \o "}"

\* The escaped characters of a string, in order.
RECURSIVE escape_str(_)
escape_str(s) ==
    IF s = <<>> THEN ""
    ELSE escape_debug_ext(Head(s)) \o escape_str(Tail(s))

\* <String as Debug>::fmt: the escaped text between double quotes.
str_debug(s) == "\"" \o escape_str(s) \o "\""

\* Formatter::debug_struct(name): the name is written at once.
debug_struct(name) == [buf |-> name, result |-> "Ok", has_fields |-> FALSE]

\* DebugStruct::field(name, value): " { " before the first field, ", "
\* before the others, then name, ": " and the value's Debug text.
field(ds, name, value) ==
    IF ds.result = "Ok"
    THEN [buf |-> ds.buf \o (IF ds.has_fields THEN ", " ELSE " { ")
                         \o name \o ": " \o value,
          result |-> "Ok",
          has_fields |-> TRUE]
    ELSE [ds EXCEPT !.has_fields = TRUE]

\* DebugStruct::finish(): " }" closes a struct that has fields.
finish(ds) ==
    IF ds.has_fields /\ ds.result = "Ok"
    THEN [result |-> "Ok", text |-> ds.buf \o " }"]
    ELSE [result |-> ds.result, text |-> ds.buf]

\* #[derive(Debug)] for GraphinaErrorKind: a unit variant writes its name,
\* the struct variant is a debug_struct with its one field.
kind_debug(kind) ==
    IF kind.name = "PowerIterationFailedConvergence"
    THEN finish(field(debug_struct("PowerIterationFailedConvergence"),
                      "num_iterations", fmt_usize(kind.num_iterations))).text
    ELSE kind.name

\* fmt with the two field calls in the other order.
fmt_message_first(self) ==
    LET dbg_struct0 == debug_struct("GraphinaError")
        dbg_struct1 == field(dbg_struct0, "message", str_debug(self.message))
        dbg_struct2 == field(dbg_struct1, "kind", kind_debug(self.kind))
    IN  finish(dbg_struct2)

\* fmt with the label the module's documentation path suggests.
fmt_renamed(self) ==
    LET dbg_struct0 == debug_struct("GraphinaException")
        dbg_struct1 == field(dbg_struct0, "kind", kind_debug(self.kind))
        dbg_struct2 == field(dbg_struct1, "message", str_debug(self.message))
    IN  finish(dbg_struct2)

\* fmt writing after the text of the last rendering instead of starting
\* from an empty buffer.
fmt_appending(self) ==
    LET dbg_struct0 == debug_struct("GraphinaError")
        dbg_struct1 == field(dbg_struct0, "kind", kind_debug(self.kind))
        dbg_struct2 == field(dbg_struct1, "message", str_debug(self.message))
        r == finish(dbg_struct2)
    IN  [result |-> r.result,
         text |-> IF out # None THEN out.text \o r.text ELSE r.text]

\* <GraphinaError as Display>::fmt.
fmt(self) ==
    LET dbg_struct0 == debug_struct("GraphinaError")
        dbg_struct1 == field(dbg_struct0, "kind", kind_debug(self.kind))
        dbg_struct2 == field(dbg_struct1, "message", str_debug(self.message))
    IN  finish(dbg_struct2)

\* #[derive(Debug)] for GraphinaError: the fields in declaration order.
debug_fmt(self) ==
    finish(field(field(debug_struct("GraphinaError"),
                       "kind", kind_debug(self.kind)),
                 "message", str_debug(self.message)))

\* #[derive(Clone)] for GraphinaErrorKind.
kind_clone(kind) ==
    IF kind.name = "PowerIterationFailedConvergence"
    THEN [name |-> "PowerIterationFailedConvergence",
          num_iterations |-> kind.num_iterations]
    ELSE [name |-> kind.name]

\* #[derive(Clone)] for GraphinaError: each field cloned.
clone(self) ==
    [kind |-> kind_clone(self.kind),
     message |-> [i \in 1..Len(self.message) |-> self.message[i]]]

---------------------------------------------------------------------------
(* The state machine *)

Init ==
    /\ err = None
    /\ made = None
    /\ copy = None
    /\ out = None

\* One action per constructor: a failure site calls it with its message and
\* holds the value returned; made keeps the arguments of the call.
CallPointless(message) ==
    /\ err = None
    /\ err' = pointless(message)
    /\ made' = [ctor |-> "pointless", message |-> message]
    /\ UNCHANGED <<copy, out>>

CallAlgorithmError(message) ==
    /\ err = None
    /\ err' = algorithm_error(message)
    /\ made' = [ctor |-> "algorithm_error", message |-> message]
    /\ UNCHANGED <<copy, out>>

CallUnfeasible(message) ==
    /\ err = None
    /\ err' = unfeasible(message)
    /\ made' = [ctor |-> "unfeasible", message |-> message]
    /\ UNCHANGED <<copy, out>>

CallNoPath(message) ==
    /\ err = None
    /\ err' = no_path(message)
    /\ made' = [ctor |-> "no_path", message |-> message]
    /\ UNCHANGED <<copy, out>>

CallNoCycle(message) ==
    /\ err = None
    /\ err' = no_cycle(message)
    /\ made' = [ctor |-> "no_cycle", message |-> message]
    /\ UNCHANGED <<copy, out>>

CallNodeNotFound(message) ==
    /\ err = None
    /\ err' = node_not_found(message)
    /\ made' = [ctor |-> "node_not_found", message |-> message]
    /\ UNCHANGED <<copy, out>>

CallEdgeNotFound(message) ==
    /\ err = None
    /\ err' = edge_not_found(message)
    /\ made' = [ctor |-> "edge_not_found", message |-> message]
    /\ UNCHANGED <<copy, out>>

CallHasACycle(message) ==
    /\ err = None
    /\ err' = has_a_cycle(message)
    /\ made' = [ctor |-> "has_a_cycle", message |-> message]
    /\ UNCHANGED <<copy, out>>

CallUnbounded(message) ==
    /\ err = None
    /\ err' = unbounded(message)
    /\ made' = [ctor |-> "unbounded", message |-> message]
    /\ UNCHANGED <<copy, out>>

CallAmbiguousSolution(message) ==
    /\ err = None
    /\ err' = ambiguous_solution(message)
    /\ made' = [ctor |-> "ambiguous_solution", message |-> message]
    /\ UNCHANGED <<copy, out>>

CallExceededMaxIteration(message) ==
    /\ err = None
    /\ err' = exceeded_max_iteration(message)
    /\ made' = [ctor |-> "exceeded_max_iteration", message |-> message]
    /\ UNCHANGED <<copy, out>>

CallPowerIterationFailedConverge(num_iterations, message) ==
    /\ err = None
    /\ err' = power_iteration_failed_converge(num_iterations, message)
    /\ made' = [ctor |-> "power_iteration_failed_converge",
                num_iterations |-> num_iterations, message |-> message]
    /\ UNCHANGED <<copy, out>>

CallEmptyGraph(message) ==
    /\ err = None
    /\ err' = empty_graph(message)
    /\ made' = [ctor |-> "empty_graph", message |-> message]
    /\ UNCHANGED <<copy, out>>

CallParseError(message) ==
    /\ err = None
    /\ err' = parse_error(message)
    /\ made' = [ctor |-> "parse_error", message |-> message]
    /\ UNCHANGED <<copy, out>>

CallOther(message) ==
    /\ err = None
    /\ err' = other(message)
    /\ made' = [ctor |-> "other", message |-> message]
    /\ UNCHANGED <<copy, out>>

\* The values a holder can pass to a formatting call.
Held == {v \in {err, copy} : v # None}

\* Whether the last rendering was of an equal value through the same entry
\* point, so that the rendering about to be made repeats it.
Again(entry, v) == out # None /\ out.entry = entry /\ out.val = v

\* format!("{}", e) / e.to_string(): Display::fmt takes &self, so the
\* values held stay as they are.
Display ==
    /\ \E v \in Held :
          LET r == fmt(v)
          IN  out' = [entry |-> "Display", val |-> v,
                      result |-> r.result, text |-> r.text,
                      again |-> Again("Display", v)]
    /\ UNCHANGED <<err, made, copy>>

\* format!("{:?}", e): the derived Debug, also through &self.
Debug ==
    /\ \E v \in Held :
          LET r == debug_fmt(v)
          IN  out' = [entry |-> "Debug", val |-> v,
                      result |-> r.result, text |-> r.text,
                      again |-> Again("Debug", v)]
    /\ UNCHANGED <<err, made, copy>>

\* e.clone().
Clone ==
    /\ err # None
    /\ copy = None
    /\ copy' = clone(err)
    /\ UNCHANGED <<err, made, out>>

\* The kinds and messages the model's holder writes into a public field.
NewKinds == {[name |-> "NotImplemented"]}

NewMessages == {<<>>}

\* e.kind = k: the field kind is pub, so a holder with a mutable binding
\* can overwrite it; err is then no longer what its constructor returned.
SetKind ==
    /\ err # None
    /\ \E k \in NewKinds :
          /\ k # err.kind
          /\ err' = [err EXCEPT !.kind = k]
    /\ made' = None
    /\ UNCHANGED <<copy, out>>

\* e.message = m: the same for the pub field message.
SetMessage ==
    /\ err # None
    /\ \E m \in NewMessages :
          /\ m # err.message
          /\ err' = [err EXCEPT !.message = m]
    /\ made' = None
    /\ UNCHANGED <<copy, out>>

\* The value, its clone and the text rendered go out of scope.
Drop ==
    /\ err # None
    /\ err' = None
    /\ made' = None
    /\ copy' = None
    /\ out' = None

Next ==
    \/ \E m \in Messages : CallPointless(m)
    \/ \E m \in Messages : CallAlgorithmError(m)
    \/ \E m \in Messages : CallUnfeasible(m)
    \/ \E m \in Messages : CallNoPath(m)
    \/ \E m \in Messages : CallNoCycle(m)
    \/ \E m \in Messages : CallNodeNotFound(m)
    \/ \E m \in Messages : CallEdgeNotFound(m)
    \/ \E m \in Messages : CallHasACycle(m)
    \/ \E m \in Messages : CallUnbounded(m)
    \/ \E m \in Messages : CallAmbiguousSolution(m)
    \/ \E m \in Messages : CallExceededMaxIteration(m)
    \/ \E n \in NumIterations, m \in Messages : CallPowerIterationFailedConverge(n, m)
    \/ \E m \in Messages : CallEmptyGraph(m)
    \/ \E m \in Messages : CallParseError(m)
    \/ \E m \in Messages : CallOther(m)
    \/ Display
    \/ Debug
    \/ Clone
    \/ SetKind
    \/ SetMessage
    \/ Drop

Spec == Init /\ [][Next]_vars

---------------------------------------------------------------------------
(* The claims *)

PIFC == "PowerIterationFailedConvergence"

\* The kind each constructor is said to give.
ClaimedKind(call) ==
    CASE call.ctor = "pointless" -> [name |-> "PointlessConcept"]
      [] call.ctor = "algorithm_error" -> [name |-> "AlgorithmError"]
      [] call.ctor = "unfeasible" -> [name |-> "Unfeasible"]
      [] call.ctor = "no_path" -> [name |-> "NoPath"]
      [] call.ctor = "no_cycle" -> [name |-> "NoCycle"]
      [] call.ctor = "node_not_found" -> [name |-> "NodeNotFound"]
      [] call.ctor = "edge_not_found" -> [name |-> "EdgeNotFound"]
      [] call.ctor = "has_a_cycle" -> [name |-> "HasACycle"]
      [] call.ctor = "unbounded" -> [name |-> "Unbounded"]
      [] call.ctor = "ambiguous_solution" -> [name |-> "AmbiguousSolution"]
      [] call.ctor = "exceeded_max_iteration" ->
             [name |-> "ExceededMaxIterations"]
      [] call.ctor = "power_iteration_failed_converge" ->
             [name |-> PIFC, num_iterations |-> call.num_iterations]
      [] call.ctor = "empty_graph" -> [name |-> "EmptyGraph"]
      [] call.ctor = "parse_error" -> [name |-> "ParseError"]
      [] call.ctor = "other" -> [name |-> "Other"]

\* The characters of a message written one after the other, unchanged.
RECURSIVE Verbatim(_)
Verbatim(m) == IF m = <<>> THEN "" ELSE Head(m) \o Verbatim(Tail(m))

\* A message with only its double quotes and backslashes escaped.
RECURSIVE QuoteBackslashEscaped(_)
QuoteBackslashEscaped(m) ==
    IF m = <<>> THEN ""
    ELSE (IF Head(m) \in {"\"", "\\"} THEN "\\" \o Head(m) ELSE Head(m))
         \o QuoteBackslashEscaped(Tail(m))

\* A message as Rust's debug quoting of strings writes it: the double quote
\* and the backslash after a backslash, the line feed as \n, the form feed
\* (a control character without a short escape) as \u{c}, the rest unchanged.
RECURSIVE DebugEscaped(_)
DebugEscaped(m) ==
    IF m = <<>> THEN ""
    ELSE (CASE Head(m) \in {"\"", "\\"} -> "\\" \o Head(m)
            [] Head(m) = "\n" -> "\\n"
            [] Head(m) = "\f" -> "\\u{c}"
            [] OTHER -> Head(m))
         \o DebugEscaped(Tail(m))

\* The last rendering was made through Display.
Displayed == out # None /\ out.entry = "Display"

\* C1: as long as the value is what its constructor returned, its kind is
\* the kind of that constructor, and for power_iteration_failed_converge the
\* kind carries the iteration count passed.
C1_KindPreserved == made # None => err.kind = ClaimedKind(made)

C1_Witness ==
    /\ made # None
    /\ made.ctor = "power_iteration_failed_converge"
    /\ made.num_iterations = 9
    /\ err.kind = [name |-> PIFC, num_iterations |-> 9]
    /\ out # None

\* The construction functions that return a value of the kind named.
ConstructorsOf(k) ==
    {c \in Constructors : Construct(c, 0, <<>>).kind.name = k}

\* C2: there are sixteen construction functions, and the kind of any error
\* value held, like each of the sixteen kinds, is produced by exactly one of
\* them.
C2_OneConstructorPerKind ==
    err # None
    => /\ Cardinality(Constructors) = 16
       /\ Cardinality(ConstructorsOf(err.kind.name)) = 1
       /\ \A k \in KindNames : Cardinality(ConstructorsOf(k)) = 1

\* C3 as stated: a value built by a message-only constructor renders through
\* Display as the record with the kind's name and the message itself between
\* double quotes.
C3_MessageVerbatim ==
    (Displayed /\ made # None /\ made.ctor \in MessageOnlyConstructors)
    => out.text = "GraphinaError { kind: " \o ClaimedKind(made).name
                  \o ", message: \"" \o Verbatim(made.message) \o "\" }"

\* C3 as amended: the same record, with the message in Rust's debug quoting.
C3_RecordOfKindAndMessage ==
    (Displayed /\ made # None /\ made.ctor \in MessageOnlyConstructors)
    => out.text = "GraphinaError { kind: " \o ClaimedKind(made).name
                  \o ", message: \"" \o DebugEscaped(made.message) \o "\" }"

C3_Witness ==
    /\ Displayed
    /\ made # None
    /\ made.ctor = "no_cycle"
    /\ made.message = <<"a", "\"">>

\* C4 as stated: the convergence failure renders with its kind as a nested
\* record showing the count passed, and the message itself between quotes.
C4_MessageVerbatim ==
    (Displayed /\ made # None /\ made.ctor = "power_iteration_failed_converge")
    => out.text = "GraphinaError { kind: PowerIterationFailedConvergence { "
                  \o "num_iterations: " \o ToString(made.num_iterations)
                  \o " }, message: \"" \o Verbatim(made.message) \o "\" }"

\* C4 as amended: the same, with the message in Rust's debug quoting.
C4_NestedRecordWithCount ==
    (Displayed /\ made # None /\ made.ctor = "power_iteration_failed_converge")
    => out.text = "GraphinaError { kind: PowerIterationFailedConvergence { "
                  \o "num_iterations: " \o ToString(made.num_iterations)
                  \o " }, message: \"" \o DebugEscaped(made.message) \o "\" }"

C4_Witness ==
    /\ Displayed
    /\ made # None
    /\ made.ctor = "power_iteration_failed_converge"
    /\ made.num_iterations = 10
    /\ made.message = <<"\\", "a">>

\* C5: as long as the value is what its constructor returned, its message is
\* the message passed, whatever the constructor and also when it is empty.
C5_MessagePreserved == made # None => err.message = made.message

C5_Witness ==
    /\ made # None
    /\ made.ctor = "other"
    /\ made.message = <<"\\", "\"">>
    /\ err.message = <<"\\", "\"">>
    /\ copy # None

\* C6: while a value is held, no step changes its kind or its message.
C6_NeverChanges == [][(err # None /\ err' # None) => err' = err]_vars

C8_Total ==
    /\ err = None =>
          /\ \A m \in Messages :
                /\ ENABLED CallPointless(m)
                /\ ENABLED CallAlgorithmError(m)
                /\ ENABLED CallUnfeasible(m)
                /\ ENABLED CallNoPath(m)
                /\ ENABLED CallNoCycle(m)
                /\ ENABLED CallNodeNotFound(m)
                /\ ENABLED CallEdgeNotFound(m)
                /\ ENABLED CallHasACycle(m)
                /\ ENABLED CallUnbounded(m)
                /\ ENABLED CallAmbiguousSolution(m)
                /\ ENABLED CallExceededMaxIteration(m)
                /\ ENABLED CallEmptyGraph(m)
                /\ ENABLED CallParseError(m)
                /\ ENABLED CallOther(m)
                /\ \A n \in NumIterations :
                      ENABLED CallPowerIterationFailedConverge(n, m)
    /\ made # None => err \in GraphinaError
    /\ err # None => ENABLED Display /\ ENABLED Debug
    /\ out # None => out.result = "Ok"

C8_Witness ==
    /\ made # None
    /\ made.ctor = "other"
    /\ made.message = <<>>
    /\ err \in GraphinaError
    /\ Displayed
    /\ out.result = "Ok"

\* C9 as stated: between the double quotes stands the message with its
\* double quotes and backslashes escaped and every other character copied.
C9_OnlyQuoteAndBackslash ==
    Displayed
    => out.text = "GraphinaError { kind: " \o kind_debug(out.val.kind)
                  \o ", message: \"" \o QuoteBackslashEscaped(out.val.message)
                  \o "\" }"

\* C9 as amended: between the double quotes stands the message in Rust's
\* debug quoting, which also escapes the control characters; a message with
\* no such character, double quote or backslash stands there unchanged.
C9_DebugQuoting ==
    Displayed
    => /\ out.text = "GraphinaError { kind: " \o kind_debug(out.val.kind)
                     \o ", message: \"" \o DebugEscaped(out.val.message)
                     \o "\" }"
       /\ (\A i \in 1..Len(out.val.message) : out.val.message[i] = "a")
          => out.text = "GraphinaError { kind: " \o kind_debug(out.val.kind)
                        \o ", message: \"" \o Verbatim(out.val.message)
                        \o "\" }"

C9_Witness ==
    /\ Displayed
    /\ out.val.message = <<"\f", "\"">>

\* C10: whichever entry point made the last rendering, the other one gives
\* the same text for the value rendered.
C10_DisplayIsDebug ==
    out # None
    => /\ out.entry = "Display" => out.text = debug_fmt(out.val).text
       /\ out.entry = "Debug" => out.text = fmt(out.val).text

C10_Witness ==
    /\ out # None
    /\ out.entry = "Debug"
    /\ out.val.kind.name = PIFC
    /\ out.val.message = <<"\"", "\n">>

===========================================================================
